---- MODULE Spec2Model ----
(***************************************************************************)
(* Model of the RankingXadrezJovem repository.                             *)
(*                                                                         *)
(* Eight entry points are modelled, selected by the variable prog:         *)
(*   "fetch"     one call of ranking.py fetch_user_once on one response    *)
(*   "roster"    one call of ranking.py get_team_members on one feed       *)
(*   "server"    ranking.py load_players (pool phase, sequential phase,    *)
(*               activity filter), publishing PLAYERS / DATA_LOADED_AT     *)
(*   "web"       the Flask app of ranking.py answering one request:        *)
(*               GET /api/players or POST /admin/refresh (which runs       *)
(*               load_players)                                             *)
(*   "threads"   the same app serving GET /api/players in one thread while *)
(*               the load_players of an accepted POST /admin/refresh runs, *)
(*               or has run, in another                                    *)
(*   "blueprint" xadrezjovemes-ranking/src/routes.py answering one GET /   *)
(*               (which runs the load_players of the package's ranking.py, *)
(*               the same statements as those of ranking.py)               *)
(*   "generator" scripts/generate_data.py generate_players_json            *)
(*   "name"      one call of generate_data.py extract_name_from_profile    *)
(*                                                                         *)
(* JSON values are records [t, v]: t is the JSON/Python type, v an integer *)
(* payload (floats are counted in halves: v = 3 is 1.5).  Usernames are    *)
(* sequences of one-character strings so that lower(), strip() and quote() *)
(* are computed character by character.  Time is counted in ticks; one     *)
(* tick stands for one millisecond and DayMs ticks for one day.            *)
(***************************************************************************)
EXTENDS Integers, Sequences, FiniteSets, TLC

VARIABLES
    prog,            \* entry point being run
    once,            \* fetch entry point: [resp, username, done, res]
    roster,          \* roster entry point: [lines, done, raised, users]
    http,            \* web and blueprint entry points: [route, req, status, body] of
                     \* the request served
    reader,          \* threads entry point: the GET /api/players served next to the
                     \* refresh: [pc, req, data, status, body]
    naming,          \* name entry point: [profile, uobj, done, res]
    pc,              \* load_players position
    members,         \* load_players: roster returned by get_team_members
    task,            \* load_players: per-username future of fetch_user_with_retries
    inflight,        \* HTTP profile requests issued and not yet answered
    harvested,       \* usernames whose future as_completed has yielded
    players,         \* load_players local list players
    failed,          \* load_players local list failed
    p2,              \* sequential phase position [i, attempt]
    calls,           \* per username, number of fetch_user_once calls per phase
    fetched,         \* usernames for which a fetch_user_once call returned a record
    now_ms,          \* load_players local now_ms
    PLAYERS,         \* ranking.py global PLAYERS
    DATA_LOADED_AT,  \* ranking.py global DATA_LOADED_AT
    gen_pc,          \* generate_players_json position
    gen_members,     \* generate_players_json local members
    futures_done,    \* indices of the members whose future has been yielded
    gen_players,     \* generate_players_json local players
    prev_file,       \* contents of OUT_FILE when the run started
    OUT_FILE         \* contents of docs/players.json

----------------------------------------------------------------------------
(* Bounds *)

\* longest roster feed
MaxMembers == 2

\* longest roster feed read by a load started through POST /admin/refresh
MaxRefresh == 1

\* length of the long PLAYERS list served by GET /api/players
ListedPlayers == 22

\* longest roster body given to a single call of get_team_members
MaxLines == 3

\* ticks per day: the source's 24 * 3600 * 1000 ms, scaled down so that the
\* activity window stays within TLC's integers
DayMs == 2

\* number of instants at which the filter may read the clock
MaxSkew == 2

(* Program constants of ranking.py *)

MAX_WORKERS == 8
ACTIVE_DAYS == 30
REQUEST_TIMEOUT == 8
RETRY_ATTEMPTS == 3

----------------------------------------------------------------------------
(* Small helpers *)

Min(a, b) == IF a < b THEN a ELSE b

Max(a, b) == IF a > b THEN a ELSE b

Range(s) == {s[i] : i \in DOMAIN s}

SeqsUpTo(S, n) == UNION {[1..k -> S] : k \in 0..n}

None == [none |-> TRUE]

----------------------------------------------------------------------------
(* Usernames *)

Usernames == {<<"a">>, <<"A">>, <<"b">>}

LowerChar(c) ==
    CASE c = "A" -> "a"
      [] c = "B" -> "b"
      [] OTHER -> c

Lower(s) == [i \in DOMAIN s |-> LowerChar(s[i])]

RECURSIVE StripLeft(_)
StripLeft(s) ==
    IF s # <<>> /\ Head(s) = " " THEN StripLeft(Tail(s)) ELSE s

RECURSIVE StripRight(_)
StripRight(s) ==
    IF s # <<>> /\ s[Len(s)] = " " THEN StripRight(SubSeq(s, 1, Len(s) - 1)) ELSE s

Strip(s) == StripRight(StripLeft(s))

ProfileUrl(path) == <<"https://lichess.org/@/">> \o path

RECURSIVE quote(_)
quote(s) ==
    IF s = <<>> THEN <<>>
    ELSE (IF Head(s) = " " THEN <<"%", "2", "0">> ELSE <<Head(s)>>) \o quote(Tail(s))

----------------------------------------------------------------------------
(* JSON values and Python coercions *)

J(t, v) == [t |-> t, v |-> v]

JAbsent == J("absent", 0)

JNull == J("null", 0)

\* Python truthiness of a JSON value (an absent key reads as None)
Truthy(j) ==
    CASE j.t \in {"absent", "null"} -> FALSE
      [] j.t \in {"int", "float", "bool", "list"} -> j.v # 0
      [] j.t \in {"intstr", "floatstr", "badstr"} -> TRUE
      [] OTHER -> TRUE

\* x or 0
OrZero(j) == IF Truthy(j) THEN j ELSE J("int", 0)

\* truncation toward zero of v halves
TruncHalves(v) == IF v >= 0 THEN v \div 2 ELSE -((-v) \div 2)

safe_int(j) ==
    CASE j.t = "int" -> j.v
      [] j.t = "bool" -> j.v
      [] j.t = "float" -> TruncHalves(j.v)
      [] j.t = "intstr" -> j.v
      [] j.t = "floatstr" -> TruncHalves(j.v)
      [] OTHER -> 0

----------------------------------------------------------------------------
(* HTTP profile responses seen by ranking.py *)

Entry(kind, rating) == [kind |-> kind, rating |-> rating]

EntryAbsent == Entry("absent", JAbsent)

Perfs(kind, blitz, bullet, rapid) ==
    [kind |-> kind, blitz |-> blitz, bullet |-> bullet, rapid |-> rapid]

NoPerfs(kind) == Perfs(kind, EntryAbsent, EntryAbsent, EntryAbsent)

Response(transport, status, json, perfs, seenAt, seen_at) ==
    [transport |-> transport, status |-> status, json |-> json,
     perfs |-> perfs, seenAt |-> seenAt, seen_at |-> seen_at]

\* d.get("rating") on a perf entry read with perfs.get(name, {}):
\* the entry must be a dict (or absent, giving {}), otherwise .get raises
EntryRaises(e) == e.kind \in {"null", "other"}

EntryRating(e) == IF e.kind = "object" THEN e.rating ELSE JAbsent

\* fetch_user_once with the test of line 82 written blitz < 0
fetch_user_once_accepts_zero(resp, username, timeout) ==
    IF resp.transport # "ok" THEN None
    ELSE IF resp.status # 200 THEN None
    ELSE IF resp.json # "object" THEN None
    ELSE IF resp.perfs.kind = "other" THEN None
    ELSE LET perfs == IF resp.perfs.kind = "object" THEN resp.perfs ELSE NoPerfs("object")
         IN  IF EntryRaises(perfs.blitz) THEN None
             ELSE IF EntryRating(perfs.blitz).t \in {"absent", "null"} THEN None
             ELSE IF safe_int(EntryRating(perfs.blitz)) < 0 THEN None
             ELSE IF EntryRaises(perfs.bullet) THEN None
             ELSE IF EntryRaises(perfs.rapid) THEN None
             ELSE [username |-> username,
                   blitz |-> safe_int(EntryRating(perfs.blitz)),
                   bullet |-> safe_int(OrZero(EntryRating(perfs.bullet))),
                   rapid |-> safe_int(OrZero(EntryRating(perfs.rapid))),
                   seenAt |-> safe_int(IF Truthy(resp.seenAt) THEN resp.seenAt
                                       ELSE OrZero(resp.seen_at)),
                   profile |-> ProfileUrl(quote(username))]

\* lines 70-96: one attempt; every exception raised inside is turned into None
fetch_user_once(resp, username, timeout) ==
    IF resp.transport # "ok" THEN None
    ELSE IF resp.status # 200 THEN None
    ELSE IF resp.json = "invalid" THEN None
    ELSE IF resp.json # "object" THEN None
    ELSE IF resp.perfs.kind = "other" THEN None
    ELSE LET perfs == IF resp.perfs.kind = "object" THEN resp.perfs ELSE NoPerfs("object")
         IN  IF EntryRaises(perfs.blitz) THEN None
             ELSE IF EntryRating(perfs.blitz).t \in {"absent", "null"} THEN None
             ELSE IF safe_int(EntryRating(perfs.blitz)) <= 0 THEN None
             ELSE IF EntryRaises(perfs.bullet) THEN None
             ELSE IF EntryRaises(perfs.rapid) THEN None
             ELSE [username |-> username,
                   blitz |-> safe_int(EntryRating(perfs.blitz)),
                   bullet |-> safe_int(OrZero(EntryRating(perfs.bullet))),
                   rapid |-> safe_int(OrZero(EntryRating(perfs.rapid))),
                   seenAt |-> safe_int(IF Truthy(resp.seenAt) THEN resp.seenAt
                                       ELSE OrZero(resp.seen_at)),
                   profile |-> ProfileUrl(quote(username))]

----------------------------------------------------------------------------
(* Input universes *)

\* values a rating can take in a profile body
RatingValues ==
    {JAbsent, JNull, J("badstr", 0), J("list", 0), J("list", 1)}
    \cup {J("int", v) : v \in {-1, 0, 1, 9}}
    \cup {J("float", v) : v \in {-1, 1, 2, 3}}
    \cup {J("intstr", v) : v \in {0, 1}}
    \cup {J("floatstr", v) : v \in {-1, 3}}
    \cup {J("bool", v) : v \in {0, 1}}

BlitzEntries ==
    {EntryAbsent, Entry("null", JAbsent), Entry("other", JAbsent)}
    \cup {Entry("object", r) : r \in RatingValues}

BulletEntries ==
    {EntryAbsent, Entry("null", JAbsent), Entry("other", JAbsent),
     Entry("object", JNull), Entry("object", J("int", 7)), Entry("object", J("floatstr", 3))}

RapidEntries ==
    {EntryAbsent, Entry("null", JAbsent), Entry("object", J("int", 5))}

SeenValues == {JAbsent, J("int", 0), J("int", 3), J("float", 7)}

\* every response shape fetch_user_once distinguishes
FetchInputs ==
    {Response("error", 0, "invalid", NoPerfs("absent"), JAbsent, JAbsent),
     Response("ok", 404, "object", NoPerfs("absent"), JAbsent, JAbsent),
     Response("ok", 429, "invalid", NoPerfs("absent"), JAbsent, JAbsent),
     Response("ok", 200, "invalid", NoPerfs("absent"), JAbsent, JAbsent),
     Response("ok", 200, "array", NoPerfs("absent"), JAbsent, JAbsent)}
    \cup {Response("ok", 200, "object", NoPerfs(k), s, JAbsent) :
            k \in {"absent", "null", "other"}, s \in SeenValues}
    \cup {Response("ok", 200, "object", Perfs("object", b, u, r), s, JAbsent) :
            b \in BlitzEntries, u \in BulletEntries, r \in RapidEntries, s \in SeenValues}
    \cup {Response("ok", 200, "object",
                   Perfs("object", Entry("object", J("int", 9)), EntryAbsent, EntryAbsent),
                   s, t) : s \in {JAbsent, J("int", 0)}, t \in SeenValues}

\* a well-formed profile with the given blitz rating and last-seen time
Profile(blitz, seen) ==
    Response("ok", 200, "object",
             Perfs("object", Entry("object", J("int", blitz)),
                   Entry("object", J("int", 7)), EntryAbsent),
             J("int", seen), JAbsent)

Window == ACTIVE_DAYS * DayMs

\* instants at which the activity filter can run (the clock reads later than
\* one window after the epoch)
Nows == (Window + 2)..(Window + 1 + MaxSkew)

\* last-seen times carried by the profiles served during a run
SeenTimes == {0, 2, 3}

\* responses the profile endpoint gives during a load_players run
LoadResponses ==
    {Response("error", 0, "invalid", NoPerfs("absent"), JAbsent, JAbsent)}
    \cup {Profile(9, t) : t \in SeenTimes}

\* usernames carried by the lines of the roster feed, in feed order
\* (the empty name stands for a line that yields no username)
Feeds == SeqsUpTo(Usernames \cup {<<>>}, MaxMembers)

\* the same for a load started by POST /admin/refresh
RefreshFeeds == SeqsUpTo(Usernames \cup {<<>>}, MaxRefresh)

----------------------------------------------------------------------------
(* ranking.py: one call of fetch_user_once *)

OnceInit(pr) ==
    IF pr = "fetch"
    THEN {[resp |-> r, username |-> u, done |-> FALSE, res |-> None] :
            r \in FetchInputs, u \in {<<"a">>, <<"A", " ">>}}
    ELSE {[resp |-> Profile(9, 0), username |-> <<"a">>, done |-> FALSE, res |-> None]}

----------------------------------------------------------------------------
(* ranking.py: load_players *)

\* get_team_members without the seen set
get_team_members_keeps_all(feed) == SelectSeq(feed, LAMBDA u : u # <<>>)

\* get_team_members: usernames of the feed, exact duplicates dropped, first-seen order
RECURSIVE get_team_members(_)
get_team_members(feed) ==
    IF feed = <<>> THEN <<>>
    ELSE LET init == get_team_members(SubSeq(feed, 1, Len(feed) - 1))
             username == feed[Len(feed)]
         IN  IF username # <<>> /\ username \notin Range(init)
             THEN Append(init, username) ELSE init

\* entry points that run load_players
Loaders == {"server", "web", "threads", "blueprint"}

\* feeds the roster endpoint serves to the run
RosterFeeds == IF prog = "server" THEN Feeds ELSE RefreshFeeds

PoolSize == Min(MAX_WORKERS, Max(1, Len(members)))

Request(u, phase, timeout) == [user |-> u, phase |-> phase, timeout |-> timeout]

QueuedTask == [st |-> "queued", attempt |-> 0, timeout |-> 0, res |-> None]

NoCalls == [u \in Usernames |-> [p1 |-> 0, p2 |-> 0]]

\* the timeout growing without its cap
NextTimeout_uncapped(timeout) == (timeout * 3) \div 2

\* timeout = min(timeout * 1.5, REQUEST_TIMEOUT * 2); the values stay integral
NextTimeout(timeout) == Min((timeout * 3) \div 2, REQUEST_TIMEOUT * 2)

ServerVars ==
    <<pc, members, task, inflight, harvested, players, failed, p2, calls, fetched,
      now_ms, PLAYERS, DATA_LOADED_AT>>

GenVars == <<gen_pc, gen_members, futures_done, gen_players, prev_file, OUT_FILE>>

\* the roster failure handled like an empty roster
get_team_members_raises_clears ==
    /\ prog \in Loaders /\ pc = "start"
    /\ pc' = "raised"
    /\ PLAYERS' = <<>>
    /\ UNCHANGED <<GenVars, roster, http, prog, once, reader, naming, members, task, inflight, harvested,
                   players, failed, p2, calls, fetched, now_ms, DATA_LOADED_AT>>

\* load_players lines 113-114: the roster request fails (transport error, or
\* raise_for_status on a 4xx/5xx status) and the exception propagates
get_team_members_raises ==
    /\ prog \in Loaders /\ pc = "start"
    /\ pc' = "raised"
    /\ UNCHANGED <<GenVars, roster, http, prog, once, reader, naming, members, task, inflight, harvested, players, failed,
                   p2, calls, fetched, now_ms, PLAYERS, DATA_LOADED_AT>>

\* load_players lines 113-125: roster read, empty-roster return, tasks submitted
load_players_begin ==
    /\ prog \in Loaders /\ pc = "start"
    /\ \E feed \in RosterFeeds :
         LET ms == get_team_members(feed)
         IN  /\ members' = ms
             /\ IF ms = <<>>
                THEN /\ PLAYERS' = <<>>
                     /\ pc' = "done"
                     /\ task' = task
                ELSE /\ PLAYERS' = PLAYERS
                     /\ pc' = "phase1"
                     /\ task' = [u \in Range(ms) |-> QueuedTask]
    /\ UNCHANGED <<GenVars, roster, http, prog, once, reader, naming, inflight, harvested, players, failed, p2, calls,
                   fetched, now_ms, DATA_LOADED_AT>>

Running == {u \in DOMAIN task : task[u].st = "running"}

\* a pool worker takes the next queued task and issues its first request
\* (fetch_user_with_retries lines 100-102)
worker_starts_task(i) ==
    /\ prog \in Loaders /\ pc = "phase1"
    /\ i \in DOMAIN members
    /\ task[members[i]].st = "queued"
    /\ \A j \in 1..(i - 1) : task[members[j]].st # "queued"
    /\ Cardinality(Running) < PoolSize
    /\ LET u == members[i]
       IN  /\ task' = [task EXCEPT ![u] = [st |-> "running", attempt |-> 1,
                                           timeout |-> REQUEST_TIMEOUT, res |-> None]]
           /\ inflight' = inflight \cup {Request(u, 1, REQUEST_TIMEOUT)}
           /\ calls' = [calls EXCEPT ![u].p1 = @ + 1]
    /\ UNCHANGED <<GenVars, roster, http, prog, once, reader, naming, pc, members, harvested, players, failed, p2,
                   fetched, now_ms, PLAYERS, DATA_LOADED_AT>>

\* one iteration of the loop of fetch_user_with_retries (lines 101-107):
\* the pending request is answered; on None the task sleeps, raises its
\* timeout and either issues the next request or returns None
fetch_user_with_retries(u) ==
    /\ prog \in Loaders /\ pc = "phase1"
    /\ u \in DOMAIN task
    /\ task[u].st = "running"
    /\ \E resp \in LoadResponses :
         LET t == task[u]
             res == fetch_user_once(resp, u, t.timeout)
             answered == inflight \ {Request(u, 1, t.timeout)}
         IN  /\ fetched' = IF res # None THEN fetched \cup {u} ELSE fetched
             /\ IF res # None
                THEN /\ task' = [task EXCEPT ![u] = [t EXCEPT !.st = "finished", !.res = res]]
                     /\ inflight' = answered
                     /\ calls' = calls
                ELSE IF t.attempt = RETRY_ATTEMPTS
                THEN /\ task' = [task EXCEPT ![u] = [t EXCEPT !.st = "finished",
                                                              !.timeout = NextTimeout(t.timeout)]]
                     /\ inflight' = answered
                     /\ calls' = calls
                ELSE /\ task' = [task EXCEPT ![u] = [t EXCEPT !.attempt = t.attempt + 1,
                                                              !.timeout = NextTimeout(t.timeout)]]
                     /\ inflight' = answered \cup {Request(u, 1, NextTimeout(t.timeout))}
                     /\ calls' = [calls EXCEPT ![u].p1 = @ + 1]
    /\ UNCHANGED <<GenVars, roster, http, prog, once, reader, naming, pc, members, harvested, players, failed, p2,
                   now_ms, PLAYERS, DATA_LOADED_AT>>

\* one iteration of the as_completed loop (lines 127-135); after the last
\* future the pool is closed and load_players moves on (lines 137-138)
as_completed(u) ==
    /\ prog \in Loaders /\ pc = "phase1"
    /\ u \in DOMAIN task
    /\ task[u].st = "finished"
    /\ u \notin harvested
    /\ harvested' = harvested \cup {u}
    /\ IF task[u].res = None
       THEN failed' = Append(failed, u) /\ players' = players
       ELSE players' = Append(players, task[u].res) /\ failed' = failed
    /\ pc' = IF harvested' # DOMAIN task THEN "phase1"
             ELSE IF failed' # <<>> THEN "phase2" ELSE "filter"
    /\ UNCHANGED <<GenVars, roster, http, prog, once, reader, naming, members, task, inflight, p2, calls, fetched,
                   now_ms, PLAYERS, DATA_LOADED_AT>>

\* the sequential phase reusing the base timeout
RetryTimeout_base == REQUEST_TIMEOUT

\* line 143: timeout of every request of the sequential phase
RetryTimeout == REQUEST_TIMEOUT * 2

\* the sequential loop running one attempt too many
LastRetry_extra == RETRY_ATTEMPTS + 2

\* line 142: last value of range(1, RETRY_ATTEMPTS + 2)
LastRetry == RETRY_ATTEMPTS + 1

\* the sequential phase recording a failed attempt as a placeholder record
retried_with_placeholder(ps, u, res) ==
    IF res # None THEN Append(ps, res)
    ELSE Append(ps, [username |-> u, blitz |-> 0, bullet |-> 0, rapid |-> 0,
                     seenAt |-> Window + MaxSkew + 2, profile |-> ProfileUrl(quote(u))])

\* lines 144-145: players after an answer of the sequential phase for u
retried(ps, u, res) == IF res # None THEN Append(ps, res) ELSE ps

\* the inner loop going on after a record was appended
leaves_retry_loop_no_break(res, attempt) == attempt = LastRetry

\* lines 142-146: the inner loop is left by the break that follows a record,
\* or when range(1, RETRY_ATTEMPTS + 2) is used up
leaves_retry_loop(res, attempt) == res # None \/ attempt = LastRetry

\* sequential phase, line 143: the request for failed[i] is issued
retry_request ==
    /\ prog \in Loaders /\ pc = "phase2"
    /\ ~p2.waiting
    /\ LET u == failed[p2.i]
       IN  /\ inflight' = inflight \cup {Request(u, 2, RetryTimeout)}
           /\ calls' = [calls EXCEPT ![u].p2 = @ + 1]
    /\ p2' = [p2 EXCEPT !.waiting = TRUE]
    /\ UNCHANGED <<GenVars, roster, http, prog, once, reader, naming, pc, members, task, harvested, players, failed,
                   fetched, now_ms, PLAYERS, DATA_LOADED_AT>>

\* sequential phase, lines 143-149: the request is answered; a record is
\* appended and the inner loop left, otherwise the next attempt follows
\* until range(1, RETRY_ATTEMPTS + 2) is used up
retry_response ==
    /\ prog \in Loaders /\ pc = "phase2"
    /\ p2.waiting
    /\ \E resp \in LoadResponses :
         LET u == failed[p2.i]
             res == fetch_user_once(resp, u, RetryTimeout)
             next_user == leaves_retry_loop(res, p2.attempt)
         IN  /\ inflight' = inflight \ {Request(u, 2, RetryTimeout)}
             /\ fetched' = IF res # None THEN fetched \cup {u} ELSE fetched
             /\ players' = retried(players, u, res)
             /\ p2' = IF next_user
                      THEN [i |-> p2.i + 1, attempt |-> 1, waiting |-> FALSE]
                      ELSE [p2 EXCEPT !.attempt = @ + 1, !.waiting = FALSE]
             /\ pc' = IF next_user /\ p2.i = Len(failed) THEN "filter" ELSE "phase2"
    /\ UNCHANGED <<GenVars, roster, http, prog, once, reader, naming, members, task, harvested, failed, calls,
                   now_ms, PLAYERS, DATA_LOADED_AT>>

\* the filter of line 154 written with >
IsActive_strict(p, now) == p.seenAt > now - ACTIVE_DAYS * DayMs

\* lines 153-154: p.get("seenAt", 0) >= cutoff_ms
IsActive(p, now) == p.seenAt >= now - ACTIVE_DAYS * DayMs

\* lines 151-156: activity filter and assignment of the global PLAYERS
filter_and_publish ==
    /\ prog \in Loaders /\ pc = "filter"
    /\ \E now \in Nows :
         /\ now_ms' = now
         /\ PLAYERS' = SelectSeq(players, LAMBDA p : IsActive(p, now))
    /\ pc' = "published"
    /\ UNCHANGED <<GenVars, roster, http, prog, once, reader, naming, members, task, inflight,
                   harvested, players, failed, p2, calls, fetched, DATA_LOADED_AT>>

\* lines 157-158: DATA_LOADED_AT = int(time.time() * 1000), a second reading of
\* the clock and a second assignment, and the load returns
set_loaded_at ==
    /\ prog \in Loaders /\ pc = "published"
    /\ \E later \in 0..1 : DATA_LOADED_AT' = now_ms + later
    /\ pc' = "done"
    /\ UNCHANGED <<GenVars, roster, http, prog, once, reader, naming, members, task, inflight,
                   harvested, players, failed, p2, calls, fetched, now_ms, PLAYERS>>

\* ranking.py fetch_user_once called once on the chosen response
fetch_once_call ==
    /\ prog = "fetch"
    /\ ~once.done
    /\ once' = [once EXCEPT !.done = TRUE,
                            !.res = fetch_user_once(once.resp, once.username, REQUEST_TIMEOUT)]
    /\ UNCHANGED <<GenVars, roster, http, prog, reader, naming, ServerVars>>

----------------------------------------------------------------------------
(* scripts/generate_data.py: helpers of generate_players_json *)

JInt(v) == J("int", v)

\* x or 0 for a value that is an integer or None
NumOrZero(j) == IF j.t = "int" THEN j.v ELSE 0

\* a or b
PyOr(a, b) == IF Truthy(a) THEN a ELSE b

\* dict.get(key): an absent key reads as None
Get(j) == IF j.t = "absent" THEN JNull ELSE j

\* s or t for strings (sequences of characters)
StrOr(s, t) == IF s # <<>> THEN s ELSE t

NameFields(name, fullName, firstName, first, lastName, last, realName, displayName) ==
    [name |-> name, fullName |-> fullName, firstName |-> firstName, first |-> first,
     lastName |-> lastName, last |-> last, realName |-> realName,
     displayName |-> displayName]

NoNames == NameFields(<<>>, <<>>, <<>>, <<>>, <<>>, <<>>, <<>>, <<>>)

\* the name fields taken strictly one after the other
extract_name_from_profile_name_first(profile, uobj) ==
    LET first == StrOr(profile.firstName, profile.first)
        last == StrOr(profile.lastName, profile.last)
        both == IF first # <<>> /\ last # <<>> THEN first \o <<" ">> \o last ELSE first
    IN  Strip(StrOr(profile.name, StrOr(profile.fullName, StrOr(both,
              StrOr(profile.realName, StrOr(profile.displayName,
              StrOr(uobj.name, StrOr(uobj.fullName, uobj.displayName))))))))

\* lines 63-78 (profile is a dict, possibly empty, and uobj the user object a
\* profile response is: fetch_user, lines 114-115)
extract_name_from_profile(profile, uobj) ==
    LET name0 == StrOr(profile.name, profile.fullName)
        first == StrOr(profile.firstName, profile.first)
        last == StrOr(profile.lastName, profile.last)
        name1 == IF first # <<>> /\ last # <<>> THEN Strip(first \o <<" ">> \o last)
                 ELSE IF first # <<>> /\ name0 = <<>> THEN Strip(first)
                 ELSE name0
        name2 == IF name1 = <<>> THEN StrOr(profile.realName, profile.displayName) ELSE name1
        name3 == IF name2 = <<>>
                 THEN StrOr(uobj.name, StrOr(uobj.fullName, uobj.displayName))
                 ELSE name2
    IN  Strip(name3)

LowerName(n) ==
    CASE n = "Blitz" -> "blitz"
      [] n = "Bullet" -> "bullet"
      [] n = "Rapid" -> "rapid"
      [] n = "Classical" -> "classical"
      [] OTHER -> n

NoDiffs == [blitz |-> JNull, bullet |-> JNull, rapid |-> JNull]

\* fetch_rating_history: per category, last point minus the one before it
RECURSIVE history_diffs(_, _)
history_diffs(recs, out) ==
    IF recs = <<>> THEN out
    ELSE LET rec == Head(recs)
             name == LowerName(rec.name)
             pts == rec.points
             diff == IF Len(pts) >= 2 THEN JInt(pts[Len(pts)] - pts[Len(pts) - 1])
                     ELSE JNull
         IN  history_diffs(Tail(recs),
                           IF name \in DOMAIN out THEN [out EXCEPT ![name] = diff] ELSE out)

fetch_rating_history(hist) ==
    IF hist.status # 200 THEN NoDiffs ELSE history_diffs(hist.recs, NoDiffs)

\* fetch_user of generate_data.py: record for the member or None
fetch_user(resp, username) ==
    IF resp.transport # "ok" THEN None
    ELSE IF resp.status = 404 THEN None
    ELSE IF resp.status # 200 THEN None
    ELSE IF resp.json # "object" THEN None
    ELSE IF resp.perfs.kind \in {"null", "other"} THEN None
    ELSE LET perfs == IF resp.perfs.kind = "object" THEN resp.perfs ELSE NoPerfs("object")
         IN  IF EntryRaises(perfs.blitz) \/ EntryRaises(perfs.bullet) \/ EntryRaises(perfs.rapid)
             THEN None
             ELSE LET diffs == fetch_rating_history(resp.history)
                  IN  [username |-> username,
                       name |-> extract_name_from_profile(resp.profile, resp.uobj),
                       profile |-> IF resp.url # <<>> THEN resp.url ELSE ProfileUrl(username),
                       blitz |-> Get(EntryRating(perfs.blitz)),
                       bullet |-> Get(EntryRating(perfs.bullet)),
                       rapid |-> Get(EntryRating(perfs.rapid)),
                       seenAt |-> PyOr(resp.seenAt, PyOr(resp.lastSeenAt,
                                       PyOr(resp.seenAtMillis, JNull))),
                       recent_blitz_diff |-> diffs.blitz,
                       recent_bullet_diff |-> diffs.bullet,
                       recent_rapid_diff |-> diffs.rapid]

\* profiles and user objects given to extract_name_from_profile: every field
\* is missing (or empty) or holds a name of its own; name, firstName and
\* lastName may also be blank
NamedProfiles ==
    {NameFields(n, f, x, y, l, m, r, d) :
        n \in {<<>>, <<"n">>, <<" ">>}, f \in {<<>>, <<"f">>},
        x \in {<<>>, <<"x">>, <<" ">>}, y \in {<<>>, <<"y">>},
        l \in {<<>>, <<"l">>, <<" ">>}, m \in {<<>>, <<"m">>},
        r \in {<<>>, <<"r">>}, d \in {<<>>, <<"d">>}}

NamedUsers ==
    {[name |-> n, fullName |-> f, displayName |-> d] :
        n \in {<<>>, <<"N">>}, f \in {<<>>, <<"F">>}, d \in {<<>>, <<"D">>}}

NamingInit(pr) ==
    IF pr = "name"
    THEN {[profile |-> p, uobj |-> u, done |-> FALSE, res |-> <<>>] :
            p \in NamedProfiles, u \in NamedUsers}
    ELSE {[profile |-> NoNames, uobj |-> [name |-> <<>>, fullName |-> <<>>, displayName |-> <<>>],
           done |-> FALSE, res |-> <<>>]}

\* extract_name_from_profile called once on the chosen profile and user object
extract_name_call ==
    /\ prog = "name"
    /\ ~naming.done
    /\ naming' = [naming EXCEPT !.done = TRUE,
                                !.res = extract_name_from_profile(naming.profile, naming.uobj)]
    /\ UNCHANGED <<prog, once, roster, http, reader, ServerVars, GenVars>>

\* fetch_team_members: the usernames of the feed that are not empty
fetch_team_members(feed) == SelectSeq(feed, LAMBDA u : u # <<>>)

\* active_since_days with time.time() * 1000 = now:
\* (now - ts) / DayMs <= days, the division being exact in the reals
active_since_days(player, now) ==
    IF ~Truthy(player.seenAt) THEN FALSE
    ELSE IF player.seenAt.t \notin {"int", "float", "intstr", "floatstr", "bool"} THEN FALSE
    ELSE now - safe_int(player.seenAt) <= ACTIVE_DAYS * DayMs

rating_status(diff) ==
    IF diff.t # "int" THEN "None"
    ELSE IF diff.v > 0 THEN "subiu"
    ELSE IF diff.v < 0 THEN "caiu"
    ELSE "manteve"

score(p) == NumOrZero(p.blitz) + NumOrZero(p.bullet) + NumOrZero(p.rapid)

Key(p) == Lower(Strip(p.username))

\* position of key in the list of kept records, 0 when absent
KeyIndex(byu, key) ==
    IF \E i \in DOMAIN byu : Key(byu[i]) = key
    THEN CHOOSE i \in DOMAIN byu : Key(byu[i]) = key
    ELSE 0

\* one iteration of the dedupe loop (lines 183-187); byu is kept as the
\* list of its values in key insertion order
dedupe_step(byu, p) ==
    LET key == Key(p)
        i == KeyIndex(byu, key)
    IN  IF key = <<>> THEN byu
        ELSE IF i = 0 THEN Append(byu, p)
        ELSE IF score(p) > score(byu[i])
                \/ NumOrZero(p.seenAt) > NumOrZero(byu[i].seenAt)
        THEN [byu EXCEPT ![i] = p]
        ELSE byu

RECURSIVE dedupe(_)
dedupe(ps) ==
    IF ps = <<>> THEN <<>>
    ELSE dedupe_step(dedupe(SubSeq(ps, 1, Len(ps) - 1)), ps[Len(ps)])

\* the sort key reduced to -(blitz or 0)
KeyLess_blitz_only(p, q) == NumOrZero(p.blitz) > NumOrZero(q.blitz)

\* the sort key (-(blitz or 0), -(bullet or 0), -(rapid or 0)) of p is
\* strictly smaller than that of q
KeyLess(p, q) ==
    LET pb == NumOrZero(p.blitz)
        qb == NumOrZero(q.blitz)
        pu == NumOrZero(p.bullet)
        qu == NumOrZero(q.bullet)
        pr == NumOrZero(p.rapid)
        qr == NumOrZero(q.rapid)
    IN  \/ pb > qb
        \/ pb = qb /\ pu > qu
        \/ pb = qb /\ pu = qu /\ pr > qr

\* stable insertion of p into the sorted list s
RECURSIVE insert_sorted(_, _)
insert_sorted(s, p) ==
    IF s = <<>> THEN <<p>>
    ELSE IF KeyLess(p, s[Len(s)]) THEN Append(insert_sorted(SubSeq(s, 1, Len(s) - 1), p), s[Len(s)])
    ELSE Append(s, p)

\* sorted(active, key=...): stable
RECURSIVE sorted(_)
sorted(ps) ==
    IF ps = <<>> THEN <<>>
    ELSE insert_sorted(sorted(SubSeq(ps, 1, Len(ps) - 1)), ps[Len(ps)])

\* index of the last record of the previous snapshot stored under key, 0 when none
\* (prev_map and prev_rank_map, lines 199-203: a later record overwrites an earlier one)
PrevIndex(prev, key) ==
    LET hits == {i \in DOMAIN prev : Key(prev[i]) = key /\ key # <<>>}
    IN  IF hits = {} THEN 0 ELSE CHOOSE i \in hits : \A j \in hits : j <= i

\* the players list of the previous snapshot, empty when the file is missing
PrevPlayers(file) == IF file = None THEN <<>> ELSE file.players

SEM_NOME == <<"Sem nome registrado">>

\* the fallback ignoring the rating history
RecentOrZero_ignored(j) == JInt(0)

\* lines 227-229: the recent diff when it is not None, else 0
RecentOrZero(j) == IF j.t # "null" THEN j ELSE JInt(0)

\* the rank delta taken as current minus previous
position_change_reversed(prev_pos, pos) == pos - prev_pos

\* line 243: change = prev_pos - current_pos
position_change(prev_pos, pos) == prev_pos - pos

\* the position taken as the 0-based index
current_pos_zero_based(idx) == idx

\* line 236: position of the record at index idx of enumerate(active_sorted)
current_pos(idx) == idx + 1

\* lines 207-254 for the record p at index idx (0-based) of active_sorted
ranked(p, idx, prev) ==
    LET k == PrevIndex(prev, Key(p))
        pos == current_pos(idx)
        blitz_diff == IF k # 0 THEN JInt(NumOrZero(p.blitz) - NumOrZero(prev[k].blitz))
                      ELSE RecentOrZero(p.recent_blitz_diff)
        bullet_diff == IF k # 0 THEN JInt(NumOrZero(p.bullet) - NumOrZero(prev[k].bullet))
                       ELSE RecentOrZero(p.recent_bullet_diff)
        rapid_diff == IF k # 0 THEN JInt(NumOrZero(p.rapid) - NumOrZero(prev[k].rapid))
                      ELSE RecentOrZero(p.recent_rapid_diff)
        change == position_change(k, pos)
    IN  [username |-> p.username,
         name |-> IF Strip(p.name) = <<>> THEN SEM_NOME ELSE p.name,
         profile |-> p.profile,
         blitz |-> p.blitz,
         bullet |-> p.bullet,
         rapid |-> p.rapid,
         seenAt |-> p.seenAt,
         blitz_diff |-> blitz_diff,
         bullet_diff |-> bullet_diff,
         rapid_diff |-> rapid_diff,
         position |-> pos,
         position_change |-> IF k = 0 THEN JNull ELSE JInt(change),
         position_arrow |-> IF k = 0 THEN "None"
                            ELSE IF change > 0 THEN "up"
                            ELSE IF change < 0 THEN "down"
                            ELSE "same",
         blitz_status |-> rating_status(blitz_diff),
         bullet_status |-> rating_status(bullet_diff),
         rapid_status |-> rating_status(rapid_diff)]

\* lines 180-190: dedupe, activity filter and sort of the fetched records
active_sorted(ps, now) ==
    sorted(SelectSeq(dedupe(ps), LAMBDA v : active_since_days(v, now)))

\* lines 180-260: the snapshot written for the fetched records
snapshot(ps, now, file) ==
    LET srt == active_sorted(ps, now)
    IN  [generated_at |-> now,
         count |-> Len(srt),
         players |-> [i \in DOMAIN srt |-> ranked(srt[i], i - 1, PrevPlayers(file))]]

\* the fetched record p as lines 207-233 leave it: the loop works on the dict
\* itself, a blank name is overwritten and the recent_*_diff keys are popped
\* (a later p.get reads None)
after_ranking(p) ==
    [p EXCEPT !.name = IF Strip(p.name) = <<>> THEN SEM_NOME ELSE p.name,
              !.recent_blitz_diff = JNull,
              !.recent_bullet_diff = JNull,
              !.recent_rapid_diff = JNull]

\* the list players after lines 180-260 have run over it: the dicts that were
\* in active_sorted are the ones changed
mutated_in_place(ps, now) ==
    LET srt == active_sorted(ps, now)
    IN  [i \in DOMAIN ps |-> IF ps[i] \in Range(srt) THEN after_ranking(ps[i]) ELSE ps[i]]

----------------------------------------------------------------------------
(* scripts/generate_data.py: inputs *)

History(status, recs) == [status |-> status, recs |-> recs]

NoHistory == History(404, <<>>)

SomeHistory ==
    History(200, << [name |-> "Blitz", points |-> <<45, 50>>],
                    [name |-> "Bullet", points |-> <<30>>],
                    [name |-> "Classical", points |-> <<10, 20>>] >>)

GenResponse(transport, status, json, perfs, seenAt, profile, history) ==
    [transport |-> transport, status |-> status, json |-> json, perfs |-> perfs,
     seenAt |-> seenAt, lastSeenAt |-> JAbsent, seenAtMillis |-> JAbsent,
     profile |-> profile, uobj |-> [name |-> <<>>, fullName |-> <<>>, displayName |-> <<>>],
     url |-> <<>>, history |-> history]

Rated(r) == IF r = 0 THEN EntryAbsent ELSE Entry("object", JInt(r))

\* a profile with the given ratings (0: perf missing), last-seen time and name
GenProfile(blitz, bullet, rapid, seen, name, history) ==
    GenResponse("ok", 200, "object",
                Perfs("object", Rated(blitz), Rated(bullet), Rated(rapid)),
                seen, [NoNames EXCEPT !.name = name], history)

\* responses the profile endpoint gives during a generate_players_json run
GenResponses ==
    {GenResponse("ok", 404, "object", NoPerfs("absent"), JAbsent, NoNames, NoHistory),
     GenProfile(50, 30, 20, JInt(3), <<"A", "n", "n">>, SomeHistory),
     GenProfile(50, 30, 10, JInt(4), <<>>, NoHistory),
     GenProfile(50, 20, 30, JInt(2), <<"B", "o">>, NoHistory),
     GenProfile(0, 30, 0, JInt(3), <<>>, SomeHistory),
     GenProfile(40, 0, 50, JInt(1), <<" ">>, NoHistory),
     GenProfile(60, 10, 10, JInt(0), <<>>, NoHistory)}

SnapshotPlayer(username, blitz, bullet, rapid, pos) ==
    ranked([username |-> username, name |-> <<>>, profile |-> ProfileUrl(username),
            blitz |-> blitz, bullet |-> bullet, rapid |-> rapid, seenAt |-> JInt(1),
            recent_blitz_diff |-> JNull, recent_bullet_diff |-> JNull,
            recent_rapid_diff |-> JNull], pos - 1, <<>>)

\* contents of OUT_FILE before the run: missing, or a snapshot of an earlier run
PrevFiles ==
    {None,
     [generated_at |-> 1, count |-> 3,
      players |-> << SnapshotPlayer(<<"b">>, JInt(55), JInt(20), JInt(10), 1),
                     SnapshotPlayer(<<"c">>, JInt(52), JNull, JNull, 2),
                     SnapshotPlayer(<<"a">>, JInt(48), JInt(30), JInt(20), 3) >>],
     [generated_at |-> 1, count |-> 3,
      players |-> << SnapshotPlayer(<<"c">>, JInt(52), JNull, JNull, 1),
                     SnapshotPlayer(<<"d">>, JInt(50), JInt(20), JInt(10), 2),
                     SnapshotPlayer(<<"a">>, JInt(48), JInt(30), JInt(20), 3) >>]}

----------------------------------------------------------------------------
(* scripts/generate_data.py: generate_players_json *)

\* line 171: the roster request fails (raise_for_status) and the run aborts
fetch_team_members_raises ==
    /\ prog = "generator" /\ gen_pc = "start"
    /\ gen_pc' = "raised"
    /\ UNCHANGED <<roster, http, prog, once, reader, naming, ServerVars, gen_members, futures_done, gen_players,
                   prev_file, OUT_FILE>>

\* lines 169-175: roster read and one fetch_user task submitted per member
generate_begin ==
    /\ prog = "generator" /\ gen_pc = "start"
    /\ \E feed \in Feeds : gen_members' = fetch_team_members(feed)
    /\ gen_pc' = "fetching"
    /\ UNCHANGED <<roster, http, prog, once, reader, naming, ServerVars, futures_done, gen_players, prev_file, OUT_FILE>>

\* lines 176-178: the future of the i-th member completes and is yielded
gen_as_completed(i) ==
    /\ prog = "generator" /\ gen_pc = "fetching"
    /\ i \in DOMAIN gen_members
    /\ i \notin futures_done
    /\ futures_done' = futures_done \cup {i}
    /\ \E resp \in GenResponses :
         LET res == fetch_user(resp, gen_members[i])
         IN  gen_players' = IF res # None THEN Append(gen_players, res) ELSE gen_players
    /\ UNCHANGED <<roster, http, prog, once, reader, naming, ServerVars, gen_pc, gen_members, prev_file, OUT_FILE>>

\* lines 180-264: dedupe, filter, sort, deltas, positions and the file write
generate_finish ==
    /\ prog = "generator" /\ gen_pc = "fetching"
    /\ futures_done = DOMAIN gen_members
    /\ \E now \in Nows : OUT_FILE' = snapshot(gen_players, now, prev_file)
    /\ gen_pc' = "done"
    /\ UNCHANGED <<roster, http, prog, once, reader, naming, ServerVars, gen_members, futures_done, gen_players, prev_file>>

----------------------------------------------------------------------------
(* ranking.py: one call of get_team_members on the lines of a feed *)

User(kind, id) == [kind |-> kind, id |-> id]

NoUser == User("absent", <<>>)

\* a line of the NDJSON feed: blank, invalid JSON, a JSON value that is not an
\* object ("other"), or an object with its id, username and user fields
\* (<<>> stands for a missing key, null or the empty string)
Line(kind, id, username, user) ==
    [kind |-> kind, id |-> id, username |-> username, user |-> user]

ObjLine(id, username, user) == Line("object", id, username, user)

\* line 62 raises: obj is not a dict, or user is a truthy value without .get
line_raises(line) ==
    \/ line.kind = "other"
    \/ /\ line.kind = "object"
       /\ line.id = <<>>
       /\ line.username = <<>>
       /\ line.user.kind = "other"

\* lines 55-62: the username a line yields, <<>> when it yields none
line_username(line) ==
    IF line.kind # "object" THEN <<>>
    ELSE IF line.id # <<>> THEN line.id
    ELSE IF line.username # <<>> THEN line.username
    ELSE IF line.user.kind = "object" THEN line.user.id
    ELSE <<>>

RosterLines ==
    {Line("blank", <<>>, <<>>, NoUser),
     Line("invalid", <<>>, <<>>, NoUser),
     Line("other", <<>>, <<>>, NoUser),
     ObjLine(<<"a">>, <<>>, NoUser),
     ObjLine(<<"b">>, <<>>, NoUser),
     ObjLine(<<"A">>, <<>>, NoUser),
     ObjLine(<<>>, <<"a">>, NoUser),
     ObjLine(<<"a">>, <<"b">>, NoUser),
     ObjLine(<<>>, <<>>, User("object", <<"b">>)),
     ObjLine(<<>>, <<"a">>, User("object", <<"b">>)),
     ObjLine(<<>>, <<>>, User("null", <<>>)),
     ObjLine(<<>>, <<>>, User("other", <<>>)),
     ObjLine(<<>>, <<>>, NoUser)}

RosterInit(pr) ==
    IF pr = "roster"
    THEN {[lines |-> ls, done |-> FALSE, raised |-> FALSE, users |-> <<>>] :
            ls \in SeqsUpTo(RosterLines, MaxLines)}
    ELSE {[lines |-> <<>>, done |-> FALSE, raised |-> FALSE, users |-> <<>>]}

\* get_team_members called once on the chosen feed (status 200)
get_team_members_call ==
    /\ prog = "roster"
    /\ ~roster.done
    /\ LET raises == \E i \in DOMAIN roster.lines : line_raises(roster.lines[i])
           feed == [i \in DOMAIN roster.lines |-> line_username(roster.lines[i])]
       IN  roster' = [roster EXCEPT !.done = TRUE,
                                    !.raised = raises,
                                    !.users = IF raises THEN <<>> ELSE get_team_members(feed)]
    /\ UNCHANGED <<GenVars, http, prog, once, reader, naming, ServerVars>>

----------------------------------------------------------------------------
(* ranking.py: the Flask handlers api_players and admin_refresh *)

\* a query parameter: absent or a string
Q(s) == [t |-> "str", s |-> s]

QAbsent == [t |-> "absent", s |-> ""]

Args(page, per_page, sort, order) ==
    [page |-> page, per_page |-> per_page, sort |-> sort, order |-> order]

\* request.args.get(name, default)
ArgOr(q, default) == IF q.t = "absent" THEN default ELSE q.s

\* line 176: default of per_page
per_page_default == 20

\* lines 172-179: max(1, int(request.args.get(name, default))), the default
\* again when int() raises
int_arg(j, default) ==
    IF j.t = "absent" THEN Max(1, default)
    ELSE IF j.t = "intstr" THEN Max(1, j.v)
    ELSE default

\* line 182: the accepted sort fields
SORTS == {"blitz", "bullet", "rapid", "username"}

\* characters in code point order
Alphabet ==
    <<" ", "%", "0", "1", "2", "3", "4", "5", "6", "7", "8", "9",
      "A", "B", "a", "b", "c", "d", "u">>

CharCode(c) == CHOOSE i \in DOMAIN Alphabet : Alphabet[i] = c

\* s < t for Python strings
RECURSIVE StrLess(_, _)
StrLess(s, t) ==
    IF t = <<>> THEN FALSE
    ELSE IF s = <<>> THEN TRUE
    ELSE IF Head(s) = Head(t) THEN StrLess(Tail(s), Tail(t))
    ELSE CharCode(Head(s)) < CharCode(Head(t))

\* lines 188-191: p is placed strictly before q by the sort key and direction
key_before(p, q, sort, reverse) ==
    IF sort = "username"
    THEN IF reverse THEN StrLess(Lower(q.username), Lower(p.username))
         ELSE StrLess(Lower(p.username), Lower(q.username))
    ELSE IF reverse THEN p[sort] > q[sort]
         ELSE p[sort] < q[sort]

RECURSIVE api_insert(_, _, _, _)
api_insert(s, p, sort, reverse) ==
    IF s = <<>> THEN <<p>>
    ELSE IF key_before(p, s[Len(s)], sort, reverse)
    THEN Append(api_insert(SubSeq(s, 1, Len(s) - 1), p, sort, reverse), s[Len(s)])
    ELSE Append(s, p)

\* the listing served in the order of PLAYERS
api_sorted_unsorted(ps, sort, reverse) == ps

\* sorted(PLAYERS, key=..., reverse=reverse): stable in both directions
RECURSIVE api_sorted(_, _, _)
api_sorted(ps, sort, reverse) ==
    IF ps = <<>> THEN <<>>
    ELSE api_insert(api_sorted(SubSeq(ps, 1, Len(ps) - 1), sort, reverse),
                    ps[Len(ps)], sort, reverse)

\* data[start:end]
Slice(data, start, end) ==
    IF start >= Len(data) THEN <<>>
    ELSE SubSeq(data, start + 1, Min(end, Len(data)))

\* the listing served even when nothing is loaded
not_loaded_never(ps) == FALSE

\* line 169: not PLAYERS
not_loaded(ps) == ps = <<>>

\* an empty PLAYERS answered as a success
NotLoadedYet_ok == [status |-> 200, body |-> [error |-> "dados nao carregados ainda"]]

\* line 170: the answer for an empty PLAYERS
NotLoadedYet == [status |-> 503, body |-> [error |-> "dados nao carregados ainda"]]

\* lines 171-218: the listing made of the list read at lines 189-191 and of the
\* DATA_LOADED_AT read at line 216
api_players_listing(ps, loaded_at, args) ==
         LET page == int_arg(args.page, 1)
             per_page == int_arg(args.per_page, per_page_default)
             sort0 == ArgOr(args.sort, "blitz")
             sort == IF sort0 \notin SORTS THEN "blitz" ELSE sort0
             order == ArgOr(args.order, "desc")
             reverse == order # "asc"
             data == api_sorted(ps, sort, reverse)
             start == (page - 1) * per_page
             page_items == Slice(data, start, start + per_page)
         IN  [status |-> 200,
              body |-> [total |-> Len(data),
                        page |-> page,
                        per_page |-> per_page,
                        sort |-> sort,
                        order |-> order,
                        data_loaded_at |-> loaded_at,
                        items |-> [i \in DOMAIN page_items |->
                                     [username |-> page_items[i].username,
                                      blitz |-> page_items[i].blitz,
                                      bullet |-> page_items[i].bullet,
                                      rapid |-> page_items[i].rapid,
                                      seenAt |-> page_items[i].seenAt,
                                      profile |-> page_items[i].profile]]]]

\* lines 160-218: the response of GET /api/players when nothing else runs
api_players(ps, loaded_at, args) ==
    IF not_loaded(ps) THEN NotLoadedYet ELSE api_players_listing(ps, loaded_at, args)

\* a record of PLAYERS as fetch_user_once builds it
Loaded(username, blitz, bullet, rapid, seenAt) ==
    [username |-> username, blitz |-> blitz, bullet |-> bullet, rapid |-> rapid,
     seenAt |-> seenAt, profile |-> ProfileUrl(quote(username))]

Digit(n) == <<"0", "1", "2", "3", "4", "5", "6", "7", "8", "9">>[n + 1]

\* the i-th player of a long list: blitz ratings tie in pairs and are not in
\* list order
Listed(i) ==
    Loaded(<<"u", Digit(i \div 10), Digit(i % 10)>>,
           1000 + ((7 * i) % 11), 900 + ((5 * i) % 23), 800 + ((3 * i) % 23), Window + 1)

ManyPlayers == [i \in 1..ListedPlayers |-> Listed(i)]

FewPlayers ==
    << Loaded(<<"b">>, 9, 7, 0, Window),
       Loaded(<<"A">>, 9, 8, 5, Window - 1),
       Loaded(<<"a">>, 12, 7, 5, Window) >>

\* PLAYERS and DATA_LOADED_AT when the request arrives: nothing loaded yet, or
\* the lists published by an earlier load_players
WebLists ==
    {[PLAYERS |-> <<>>, DATA_LOADED_AT |-> 0],
     [PLAYERS |-> FewPlayers, DATA_LOADED_AT |-> Window + 2],
     [PLAYERS |-> ManyPlayers, DATA_LOADED_AT |-> Window + 2]}

LoadedInit(pr) ==
    IF pr = "web" THEN WebLists
    ELSE IF pr = "threads" THEN {l \in WebLists : Len(l.PLAYERS) <= Len(FewPlayers)}
    ELSE {[PLAYERS |-> <<>>, DATA_LOADED_AT |-> 0]}

PageArgs ==
    {JAbsent, J("intstr", 1), J("intstr", 2), J("intstr", 0), J("intstr", -1),
     J("floatstr", 3), J("badstr", 0)}

PerPageArgs ==
    {JAbsent, J("intstr", 1), J("intstr", 2), J("intstr", 0), J("intstr", -3),
     J("floatstr", 5), J("badstr", 0)}

SortArgs == {QAbsent} \cup {Q(s) : s \in SORTS \cup {"position", "bogus"}}

OrderArgs == {QAbsent, Q("asc"), Q("desc"), Q("ASC"), Q("bogus")}

ApiArgs ==
    {Args(pg, pp, so, od) : pg \in PageArgs, pp \in PerPageArgs, so \in SortArgs,
                            od \in OrderArgs}

\* the check of line 224 letting every address through
LOOPBACK_open == {"127.0.0.1", "localhost", "::1", "10.0.0.7"}

\* line 224: the remote addresses admin_refresh accepts
LOOPBACK == {"127.0.0.1", "localhost", "::1"}

RemoteAddrs == LOOPBACK \cup {"10.0.0.7"}

Idle == [route |-> "idle", req |-> None, status |-> 0, body |-> None]

\* GET /api/players is served
api_players_request ==
    /\ prog = "web" /\ http.route = "idle"
    /\ \E args \in ApiArgs :
         LET resp == api_players(PLAYERS, DATA_LOADED_AT, args)
         IN  http' = [route |-> "/api/players", req |-> args,
                      status |-> resp.status, body |-> resp.body]
    /\ UNCHANGED <<GenVars, roster, prog, once, reader, naming, ServerVars>>

\* POST /admin/refresh arrives (lines 221-226): 403 for a remote address
\* outside the loopback names, otherwise load_players is called
admin_refresh ==
    /\ prog = "web" /\ http.route = "idle"
    /\ \E addr \in RemoteAddrs :
         IF addr \notin LOOPBACK
         THEN /\ http' = [route |-> "/admin/refresh", req |-> [remote_addr |-> addr],
                          status |-> 403, body |-> [error |-> "forbidden"]]
              /\ pc' = pc
         ELSE /\ http' = [route |-> "/admin/refresh", req |-> [remote_addr |-> addr],
                          status |-> 0, body |-> None]
              /\ pc' = "start"
    /\ UNCHANGED <<GenVars, roster, prog, once, reader, naming, members, task, inflight, harvested,
                   players, failed, p2, calls, fetched, now_ms, PLAYERS, DATA_LOADED_AT>>

Pending == prog = "web" /\ http.route = "/admin/refresh" /\ http.status = 0

\* line 227: load_players has returned and the handler answers
admin_refresh_returns ==
    /\ Pending /\ pc = "done"
    /\ http' = [http EXCEPT !.status = 200,
                            !.body = [status |-> "ok", loaded |-> Len(PLAYERS)]]
    /\ UNCHANGED <<GenVars, roster, prog, once, reader, naming, ServerVars>>

\* load_players has raised inside the handler: Flask answers 500
admin_refresh_raises ==
    /\ Pending /\ pc = "raised"
    /\ http' = [http EXCEPT !.status = 500, !.body = [error |-> "Internal Server Error"]]
    /\ UNCHANGED <<GenVars, roster, prog, once, reader, naming, ServerVars>>

\* POST /admin/refresh was accepted from a loopback caller: load_players runs,
\* or has run, in the thread of that request (line 226)
Refreshing == prog = "threads"

NoReader == [pc |-> "idle", req |-> None, data |-> <<>>, status |-> 0, body |-> None]

\* the parameters of the request served next to the refresh
ReaderArgs == {Args(JAbsent, JAbsent, QAbsent, QAbsent)}

\* the development server of app.run serves each request in a thread of its
\* own, so GET /api/players runs next to a refresh; its reads of the globals
\* are the steps below.
\* lines 169-170: the global PLAYERS is tested
api_players_checks ==
    /\ Refreshing /\ reader.pc = "idle"
    /\ \E args \in ReaderArgs :
         reader' = IF not_loaded(PLAYERS)
                   THEN [pc |-> "done", req |-> args, data |-> <<>>,
                         status |-> NotLoadedYet.status, body |-> NotLoadedYet.body]
                   ELSE [NoReader EXCEPT !.pc = "checked", !.req = args]
    /\ UNCHANGED <<GenVars, roster, http, prog, once, naming, ServerVars>>

\* lines 171-196: the parameters are parsed and the global PLAYERS is read
\* again by sorted(), which copies it
api_players_sorts ==
    /\ Refreshing /\ reader.pc = "checked"
    /\ reader' = [reader EXCEPT !.pc = "sorted", !.data = PLAYERS]
    /\ UNCHANGED <<GenVars, roster, http, prog, once, naming, ServerVars>>

\* lines 198-218: the items are built and the global DATA_LOADED_AT is read
api_players_answers ==
    /\ Refreshing /\ reader.pc = "sorted"
    /\ LET resp == api_players_listing(reader.data, DATA_LOADED_AT, reader.req)
       IN  reader' = [reader EXCEPT !.pc = "done", !.status = resp.status,
                                    !.body = resp.body]
    /\ UNCHANGED <<GenVars, roster, http, prog, once, naming, ServerVars>>

----------------------------------------------------------------------------
(* xadrezjovemes-ranking/src/routes.py *)

\* routes.py line 2, from .ranking import load_players, PLAYERS: the name
\* PLAYERS of routes is bound, at import, to the list the PLAYERS of ranking
\* names at that moment, the empty list of ranking.py line 21.  load_players
\* assigns new lists to the global of ranking (lines 112 and 149) and no
\* statement changes the first list or the name of routes.
routes_PLAYERS == <<>>

\* routes.py lines 6-8: GET / arrives and index calls load_players
index ==
    /\ prog = "blueprint" /\ http.route = "idle"
    /\ http' = [route |-> "/", req |-> None, status |-> 0, body |-> None]
    /\ pc' = "start"
    /\ UNCHANGED <<GenVars, roster, prog, once, reader, naming, members, task, inflight,
                   harvested, players, failed, p2, calls, fetched, now_ms, PLAYERS,
                   DATA_LOADED_AT>>

Rendering == prog = "blueprint" /\ http.route = "/" /\ http.status = 0

\* routes.py line 9: load_players has returned and the template is rendered
\* with players = PLAYERS, the name of routes
index_returns ==
    /\ Rendering /\ pc = "done"
    /\ http' = [http EXCEPT !.status = 200, !.body = [players |-> routes_PLAYERS]]
    /\ UNCHANGED <<GenVars, roster, prog, once, reader, naming, ServerVars>>

\* load_players has raised inside index: Flask answers 500
index_raises ==
    /\ Rendering /\ pc = "raised"
    /\ http' = [http EXCEPT !.status = 500, !.body = [error |-> "Internal Server Error"]]
    /\ UNCHANGED <<GenVars, roster, prog, once, reader, naming, ServerVars>>

----------------------------------------------------------------------------

vars == <<prog, once, roster, http, reader, naming, ServerVars, GenVars>>

Init ==
    /\ prog \in {"fetch", "roster", "name", "server", "web", "threads", "blueprint", "generator"}
    /\ once \in OnceInit(prog)
    /\ roster \in RosterInit(prog)
    /\ http = Idle
    /\ reader = NoReader
    /\ naming \in NamingInit(prog)
    /\ pc = IF prog \in {"web", "blueprint"} THEN "idle" ELSE "start"
    /\ members = <<>>
    /\ task = [u \in {} |-> QueuedTask]
    /\ inflight = {}
    /\ harvested = {}
    /\ players = <<>>
    /\ failed = <<>>
    /\ p2 = [i |-> 1, attempt |-> 1, waiting |-> FALSE]
    /\ calls = NoCalls
    /\ fetched = {}
    /\ now_ms = 0
    /\ \E l \in LoadedInit(prog) : PLAYERS = l.PLAYERS /\ DATA_LOADED_AT = l.DATA_LOADED_AT
    /\ gen_pc = "start"
    /\ gen_members = <<>>
    /\ futures_done = {}
    /\ gen_players = <<>>
    /\ prev_file \in (IF prog = "generator" THEN PrevFiles ELSE {None})
    /\ OUT_FILE = prev_file

Next ==
    \/ fetch_once_call
    \/ get_team_members_call
    \/ api_players_request
    \/ admin_refresh
    \/ admin_refresh_returns
    \/ admin_refresh_raises
    \/ api_players_checks
    \/ api_players_sorts
    \/ api_players_answers
    \/ index
    \/ index_returns
    \/ index_raises
    \/ extract_name_call
    \/ get_team_members_raises
    \/ load_players_begin
    \/ \E i \in 1..(MaxMembers + 1) : worker_starts_task(i)
    \/ \E u \in Usernames : fetch_user_with_retries(u)
    \/ \E u \in Usernames : as_completed(u)
    \/ retry_request
    \/ retry_response
    \/ filter_and_publish
    \/ set_loaded_at
    \/ fetch_team_members_raises
    \/ generate_begin
    \/ \E i \in 1..(MaxMembers + 1) : gen_as_completed(i)
    \/ generate_finish

Spec == Init /\ [][Next]_vars

----------------------------------------------------------------------------
(* Properties of fetch_user_once *)

\* the rating found at perfs.blitz.rating, absent when the path does not exist
BlitzRating(resp) ==
    IF resp.perfs.kind = "object" /\ resp.perfs.blitz.kind = "object"
    THEN resp.perfs.blitz.rating ELSE JAbsent

\* int(v), else floor(float(v)), when one of them is defined
CoercedInt(j) ==
    CASE j.t \in {"int", "bool", "intstr"} -> j.v
      [] j.t \in {"float", "floatstr"} -> j.v \div 2
      [] OTHER -> 0

Coerces(j) == j.t \in {"int", "bool", "intstr", "float", "floatstr"}

\* status 200, JSON object body, blitz rating present and coercing to an integer > 0
GateHolds(resp) ==
    /\ resp.transport = "ok"
    /\ resp.status = 200
    /\ resp.json = "object"
    /\ BlitzRating(resp).t \notin {"absent", "null"}
    /\ Coerces(BlitzRating(resp))
    /\ CoercedInt(BlitzRating(resp)) > 0

\* the bullet and rapid entries of perfs are objects or missing
OtherPerfsReadable(resp) ==
    /\ resp.perfs.bullet.kind \in {"absent", "object"}
    /\ resp.perfs.rapid.kind \in {"absent", "object"}

----------------------------------------------------------------------------
(* Properties of load_players *)

Exhausted(u) == u \notin fetched /\ calls[u] = [p1 |-> RETRY_ATTEMPTS, p2 |-> RETRY_ATTEMPTS + 1]

\* C2: a username whose fetches all returned None never makes load_players
\* raise and is absent from PLAYERS; PLAYERS holds only records returned by a
\* fetch, and is empty when every fetch returned None.
C2_ExhaustionIsSilent ==
    /\ pc = "raised" => calls = NoCalls
    /\ \A u \in Usernames : Exhausted(u) => pc \in {"phase2", "filter", "published", "done"}
    /\ pc = "done" =>
          /\ \A i \in DOMAIN PLAYERS :
                /\ PLAYERS[i].username \in fetched
                /\ PLAYERS[i].blitz > 0
          /\ fetched = {} => PLAYERS = <<>>

\* a finished run in which one member was exhausted in both phases and another
\* one is published
C2_Witness ==
    /\ pc = "done"
    /\ \E u \in Range(members) : Exhausted(u)
    /\ PLAYERS # <<>>

\* C3: the sequential phase starts after every pool task has finished and been
\* collected; it issues requests only for usernames whose task returned None,
\* for every one of them, one request at a time, each with timeout
\* 2 * REQUEST_TIMEOUT.
C3_SequentialPhase ==
    /\ pc = "phase2" =>
          /\ harvested = DOMAIN task
          /\ \A u \in DOMAIN task : task[u].st = "finished"
    /\ \A r \in inflight : r.phase = 2 =>
          /\ pc = "phase2"
          /\ inflight = {r}
          /\ r.timeout = 2 * REQUEST_TIMEOUT
          /\ r.user = failed[p2.i]
    /\ \A u \in Usernames : calls[u].p2 > 0 =>
          /\ u \in DOMAIN task
          /\ task[u].st = "finished"
          /\ task[u].res = None
    /\ pc \in {"filter", "published", "done"} =>
          \A u \in DOMAIN task : task[u].res = None => calls[u].p2 >= 1

\* the sequential phase is retrying one member while another member was
\* fetched by the pool
C3_Witness ==
    /\ pc = "phase2"
    /\ \E r \in inflight : r.phase = 2
    /\ players # <<>>

\* the steps of a load_players run once the roster has been read
LoadStep ==
    \/ \E i \in 1..(MaxMembers + 1) : worker_starts_task(i)
    \/ \E u \in Usernames : fetch_user_with_retries(u)
    \/ \E u \in Usernames : as_completed(u)
    \/ retry_request
    \/ retry_response
    \/ filter_and_publish
    \/ set_loaded_at

\* every request is answered or times out, and the pool and the main thread
\* keep running: a load step that stays possible is eventually taken
FairSpec == Spec /\ WF_vars(LoadStep)

\* C4: for every username the pool phase issues at most RETRY_ATTEMPTS calls of
\* fetch_user_once and the sequential phase at most RETRY_ATTEMPTS + 1, 7 in
\* all, and a run that has started fetching reaches the activity filter.
C4_BoundedAttempts ==
    /\ [](\A u \in Usernames :
            /\ calls[u].p1 <= RETRY_ATTEMPTS
            /\ calls[u].p2 <= RETRY_ATTEMPTS + 1
            /\ calls[u].p1 + calls[u].p2 <= 7)
    /\ (pc = "phase1") ~> (pc = "done" /\ now_ms \in Nows)

\* a member has used all 7 attempts and the run stands at the filter
C4_Witness ==
    /\ pc = "filter"
    /\ \E u \in Range(members) : calls[u].p1 + calls[u].p2 = 7

----------------------------------------------------------------------------
(* Properties of generate_players_json *)

\* q wins over r: higher rating sum, or the same sum and seen more recently
Better(q, r) ==
    \/ score(q) > score(r)
    \/ score(q) = score(r) /\ NumOrZero(q.seenAt) > NumOrZero(r.seenAt)

\* C5: after deduplication there is one record per lowercased username, and it
\* is one that no fetched record of the same username beats on rating sum or,
\* for equal sums, on last-seen time.
C5_DedupeKeepsHigherSum ==
    gen_pc = "done" =>
        LET byu == dedupe(gen_players)
        IN  /\ \A i, j \in DOMAIN byu : Lower(byu[i].username) = Lower(byu[j].username) => i = j
            /\ \A q \in Range(gen_players) :
                  \E r \in Range(byu) :
                     /\ Lower(r.username) = Lower(q.username)
                     /\ ~Better(q, r)

CaseInsensitiveUnique(ps) ==
    \A i, j \in DOMAIN ps : Lower(ps[i].username) = Lower(ps[j].username) => i = j

\* C6: neither the players array written by generate_players_json nor the
\* PLAYERS list set by load_players holds two records whose usernames are equal
\* ignoring case.
C6_UsernamesUnique ==
    /\ gen_pc = "done" => CaseInsensitiveUnique(OUT_FILE.players)
    /\ pc = "done" => CaseInsensitiveUnique(PLAYERS)

\* C7: every record of the written snapshot has a blitz rating that is present
\* and positive.
C7_BlitzPresentPositive ==
    gen_pc = "done" =>
        \A i \in DOMAIN OUT_FILE.players :
            /\ OUT_FILE.players[i].blitz.t = "int"
            /\ OUT_FILE.players[i].blitz.v > 0

Core(p) ==
    [username |-> p.username, blitz |-> p.blitz, bullet |-> p.bullet,
     rapid |-> p.rapid, seenAt |-> p.seenAt]

Holds(ps, p) == \E i \in DOMAIN ps : Core(ps[i]) = Core(p)

\* C8: a record last seen exactly Window before the filter's now is kept, one
\* tick older is dropped, and a record never seen (0 or missing) is dropped, by
\* the filter of load_players and by active_since_days.
C8_ActivityBoundary ==
    /\ pc = "done" =>
          \A i \in DOMAIN players :
              LET p == players[i]
              IN  /\ p.seenAt = now_ms - Window => Holds(PLAYERS, p)
                  /\ p.seenAt = now_ms - Window - 1 => ~Holds(PLAYERS, p)
                  /\ p.seenAt = 0 => ~Holds(PLAYERS, p)
    /\ gen_pc = "done" =>
          \A r \in Range(dedupe(gen_players)) :
              LET now == OUT_FILE.generated_at
              IN  /\ r.seenAt = JInt(now - Window) => Holds(OUT_FILE.players, r)
                  /\ r.seenAt = JInt(now - Window - 1) => ~Holds(OUT_FILE.players, r)
                  /\ r.seenAt \in {JInt(0), JNull} => ~Holds(OUT_FILE.players, r)

\* load_players has filtered a record on the boundary and one a tick older
C8_Witness ==
    /\ pc = "done"
    /\ \E i, j \in DOMAIN players :
          /\ players[i].seenAt = now_ms - Window
          /\ players[j].seenAt = now_ms - Window - 1
    /\ Len(PLAYERS) = 1

\* (blitz, bullet, rapid) of p, a missing rating counting as 0, is
\* lexicographically >= that of q
LexGE(p, q) ==
    LET a == <<NumOrZero(p.blitz), NumOrZero(p.bullet), NumOrZero(p.rapid)>>
        b == <<NumOrZero(q.blitz), NumOrZero(q.bullet), NumOrZero(q.rapid)>>
    IN  \/ a = b
        \/ \E k \in 1..3 : a[k] > b[k] /\ \A l \in 1..(k - 1) : a[l] = b[l]

\* C9: the players array of the written snapshot is ordered by blitz
\* descending, then bullet descending, then rapid descending.
C9_SortedByRatings ==
    gen_pc = "done" =>
        \A i \in 1..(Len(OUT_FILE.players) - 1) :
            LexGE(OUT_FILE.players[i], OUT_FILE.players[i + 1])

\* two written players tie on blitz and bullet and differ on rapid
C9_Witness ==
    /\ gen_pc = "done"
    /\ \E i \in 1..(Len(OUT_FILE.players) - 1) :
          LET p == OUT_FILE.players[i]
              q == OUT_FILE.players[i + 1]
          IN  p.blitz = q.blitz /\ p.bullet = q.bullet /\ p.rapid.v > q.rapid.v

\* C10: count is the length of players and the i-th player has position i.
C10_PositionsAreRanks ==
    gen_pc = "done" =>
        /\ OUT_FILE.count = Len(OUT_FILE.players)
        /\ \A i \in DOMAIN OUT_FILE.players : OUT_FILE.players[i].position = i

\* a snapshot with two ranked players has been written
C10_Witness ==
    /\ gen_pc = "done"
    /\ OUT_FILE.count = 2
    /\ OUT_FILE.players[2].position = 2

\* the records of the previous snapshot whose username equals that of p ignoring case
Before(p) ==
    {q \in Range(PrevPlayers(prev_file)) : Lower(q.username) = Lower(p.username)}

\* the records the written players were made from, in written order
Survivors == active_sorted(gen_players, OUT_FILE.generated_at)

DiffOf(p, c) ==
    CASE c = "blitz" -> p.blitz_diff
      [] c = "bullet" -> p.bullet_diff
      [] c = "rapid" -> p.rapid_diff

RecentOf(r, c) ==
    CASE c = "blitz" -> r.recent_blitz_diff
      [] c = "bullet" -> r.recent_bullet_diff
      [] c = "rapid" -> r.recent_rapid_diff

\* C11: for every written player and every category c of blitz, bullet, rapid:
\* when the username is in the previous snapshot, c_diff is the current rating
\* minus the previous one (a missing rating counting as 0); when it is not,
\* c_diff is the recent rating-history diff of the player if there is one and
\* 0 otherwise.
C11_RatingDeltas ==
    gen_pc = "done" =>
        \A i \in DOMAIN OUT_FILE.players :
            LET p == OUT_FILE.players[i]
                r == Survivors[i]
            IN  /\ r.username = p.username
                /\ \A c \in {"blitz", "bullet", "rapid"} :
                      IF Before(p) # {}
                      THEN \E q \in Before(p) :
                              DiffOf(p, c) = JInt(NumOrZero(p[c]) - NumOrZero(q[c]))
                      ELSE IF RecentOf(r, c).t = "int"
                      THEN DiffOf(p, c) = RecentOf(r, c)
                      ELSE DiffOf(p, c) = JInt(0)

\* the snapshot lists a player known before whose blitz rose by 2 and a new
\* player whose diffs come from the rating history (blitz 5, no bullet diff)
C11_Witness ==
    /\ gen_pc = "done"
    /\ prev_file # None
    /\ \E i, j \in DOMAIN OUT_FILE.players :
          /\ Before(OUT_FILE.players[i]) # {}
          /\ OUT_FILE.players[i].blitz_diff = JInt(2)
          /\ OUT_FILE.players[i].rapid_diff = JInt(-10)
          /\ Before(OUT_FILE.players[j]) = {}
          /\ OUT_FILE.players[j].blitz_diff = JInt(5)
          /\ OUT_FILE.players[j].bullet_diff = JInt(0)

\* 1-based ranks at which the previous snapshot lists the username of p
RanksBefore(p) ==
    {k \in DOMAIN PrevPlayers(prev_file) :
        Lower(PrevPlayers(prev_file)[k].username) = Lower(p.username)}

\* C12: for a written player listed in the previous snapshot, position_change
\* is the previous rank minus the current rank; for a player that was not
\* listed, position_change is null and not 0.
C12_RankDelta ==
    gen_pc = "done" =>
        \A i \in DOMAIN OUT_FILE.players :
            LET p == OUT_FILE.players[i]
            IN  IF RanksBefore(p) # {}
                THEN \E k \in RanksBefore(p) : p.position_change = JInt(k - i)
                ELSE p.position_change = JNull /\ p.position_change # JInt(0)

\* a player ranked 3 before is now ranked 1 (change 2), ahead of a new player
C12_Witness ==
    /\ gen_pc = "done"
    /\ Len(OUT_FILE.players) = 2
    /\ RanksBefore(OUT_FILE.players[1]) = {3}
    /\ OUT_FILE.players[1].position_change = JInt(2)
    /\ RanksBefore(OUT_FILE.players[2]) = {}
    /\ OUT_FILE.players[2].position_change = JNull

----------------------------------------------------------------------------
(* Properties of the completion order *)

\* the rearrangements of the list ps
PermsOf(ps) ==
    {[i \in DOMAIN ps |-> ps[f[i]]] :
        f \in {g \in [DOMAIN ps -> DOMAIN ps] : \A i, j \in DOMAIN ps : g[i] = g[j] => i = j}}

\* the record was appended by the sequential phase
Retried(p) == calls[p.username].p2 > 0

\* the lists load_players can publish for the same roster and the same fetch
\* results under another completion order of the pool tasks: records of the
\* pool phase in any order, followed by records of the sequential phase in any
\* order
Reorderings(ps) ==
    {q \in PermsOf(ps) :
        \A i, j \in DOMAIN q : i < j => ~(Retried(q[i]) /\ ~Retried(q[j]))}

ListingArgs ==
    {Args(JAbsent, JAbsent, Q(so), Q(od)) : so \in SORTS, od \in {"asc", "desc"}}

\* C13: the completion order of the fetch tasks is not observable: for the
\* same roster and the same fetch results, every completion order gives the
\* same items from /api/players for each sort and order, and the same players
\* array in the snapshot written by generate_players_json.
C13_CompletionOrderUnobservable ==
    /\ (pc = "done" /\ PLAYERS # <<>>) =>
          \A q \in Reorderings(PLAYERS) : \A args \in ListingArgs :
              api_players(q, DATA_LOADED_AT, args).body.items
                  = api_players(PLAYERS, DATA_LOADED_AT, args).body.items
    /\ (gen_pc = "done" /\ \A i, j \in DOMAIN gen_members :
                              gen_members[i] = gen_members[j] => i = j) =>
          \A q \in PermsOf(gen_players) :
              snapshot(q, OUT_FILE.generated_at, prev_file).players = OUT_FILE.players

----------------------------------------------------------------------------
(* Properties of the roster request *)

\* C14: when the roster request fails, load_players raises at once: the step
\* that raises is the first of the run and leaves PLAYERS and DATA_LOADED_AT
\* as they were, no per-user fetch has been or is ever issued, and the run
\* never publishes afterwards.
C14_RosterFailureIsFatal ==
    /\ [][(pc' = "raised" /\ pc # "raised") =>
             /\ pc = "start"
             /\ PLAYERS' = PLAYERS
             /\ DATA_LOADED_AT' = DATA_LOADED_AT]_vars
    /\ [](pc = "raised" =>
             /\ calls = NoCalls
             /\ inflight = {}
             /\ DOMAIN task = {})
    /\ [][pc = "raised" =>
             /\ pc' = "raised"
             /\ PLAYERS' = PLAYERS
             /\ DATA_LOADED_AT' = DATA_LOADED_AT]_vars

\* a refresh has raised on the roster request while a list was being served
C14_Witness ==
    /\ pc = "raised"
    /\ PLAYERS = FewPlayers
    /\ DATA_LOADED_AT = Window + 2
    /\ http.status = 500

\* id, else username, else user.id of a feed line; <<>> when the line is
\* blank, not JSON, or holds none of them
Extracted(line) ==
    IF line.kind # "object" THEN <<>>
    ELSE IF line.id # <<>> THEN line.id
    ELSE IF line.username # <<>> THEN line.username
    ELSE IF line.user.kind = "object" THEN line.user.id
    ELSE <<>>

\* index of the first occurrence of u in us
FirstAt(us, u) == CHOOSE i \in DOMAIN us : us[i] = u /\ \A j \in 1..(i - 1) : us[j] # u

\* C15: the list get_team_members returns holds no string twice, holds exactly
\* the usernames extracted from the feed lines (id, else username, else
\* user.id), and lists them in the order of their first occurrence.
C15_FirstSeenOrder ==
    (roster.done /\ ~roster.raised) =>
        LET us == [i \in DOMAIN roster.lines |-> Extracted(roster.lines[i])]
            res == roster.users
        IN  /\ \A i, j \in DOMAIN res : res[i] = res[j] => i = j
            /\ Range(res) = Range(us) \ {<<>>}
            /\ \A i, j \in DOMAIN res : i < j => FirstAt(us, res[i]) < FirstAt(us, res[j])

\* a feed naming a by id, b by user.id and a again by username gave [a, b]
C15_Witness ==
    /\ roster.done
    /\ ~roster.raised
    /\ roster.lines = << ObjLine(<<"a">>, <<>>, NoUser),
                         ObjLine(<<>>, <<>>, User("object", <<"b">>)),
                         ObjLine(<<>>, <<"a">>, NoUser) >>
    /\ roster.users = << <<"a">>, <<"b">> >>

----------------------------------------------------------------------------
(* Properties of GET /api/players *)

\* a GET /api/players request has been answered while a list was loaded
Listing == http.route = "/api/players" /\ PLAYERS # <<>>

NoArgs == Args(JAbsent, JAbsent, QAbsent, QAbsent)

\* the record of PLAYERS an item was made from
IsPlayer(item) == \E i \in DOMAIN PLAYERS : PLAYERS[i] = item

\* C16: with no query parameters and data loaded the response carries page 1,
\* per_page 20, sort "blitz", order "desc", and its items are the first 20
\* players by blitz descending: min(20, total) players, in non-increasing
\* blitz order, none of them rated below a player that is left out.
C16_Defaults ==
    (Listing /\ http.req = NoArgs) =>
        /\ http.status = 200
        /\ http.body.total = Len(PLAYERS)
        /\ http.body.page = 1
        /\ http.body.per_page = 20
        /\ http.body.sort = "blitz"
        /\ http.body.order = "desc"
        /\ LET items == http.body.items
           IN  /\ Len(items) = Min(20, Len(PLAYERS))
               /\ \A i \in DOMAIN items : IsPlayer(items[i])
               /\ \A i, j \in DOMAIN items : i # j => items[i] # items[j]
               /\ \A i \in 1..(Len(items) - 1) : items[i].blitz >= items[i + 1].blitz
               /\ \A k \in DOMAIN PLAYERS :
                     (\A i \in DOMAIN items : items[i] # PLAYERS[k]) =>
                         \A i \in DOMAIN items : items[i].blitz >= PLAYERS[k].blitz

\* the long list was requested without parameters: 20 of its players came back
C16_Witness ==
    /\ Listing
    /\ http.req = NoArgs
    /\ http.body.total = ListedPlayers
    /\ Len(http.body.items) = 20
    /\ Len(PLAYERS) > 20

\* the page and per_page values that are numeric and positive
ValidCount(j) == j.t = "intstr" /\ j.v >= 1

\* the request with every invalid parameter left out
Defaulted(args) ==
    Args(IF ValidCount(args.page) THEN args.page ELSE JAbsent,
         IF ValidCount(args.per_page) THEN args.per_page ELSE JAbsent,
         IF args.sort.s \in {"blitz", "bullet", "rapid", "username", "position"}
         THEN args.sort ELSE QAbsent,
         IF args.order.s \in {"asc", "desc"} THEN args.order ELSE QAbsent)

\* C17: a request with invalid parameters is answered with a normal listing,
\* the one the same request gives with each invalid parameter left out: the
\* default is echoed and applied for a non-numeric, zero or negative page or
\* per_page, an unknown sort, and an order other than asc and desc.
C17_InvalidFallsBack ==
    Listing =>
        /\ http.status = 200
        /\ http.body = api_players(PLAYERS, DATA_LOADED_AT, Defaulted(http.req)).body

\* the key of p does not come after the key of q in the given direction
InOrder(p, q, sort, order) ==
    IF sort = "username"
    THEN IF order = "asc" THEN ~StrLess(Lower(q.username), Lower(p.username))
         ELSE ~StrLess(Lower(p.username), Lower(q.username))
    ELSE IF order = "asc" THEN p[sort] <= q[sort]
         ELSE p[sort] >= q[sort]

\* C18: for every sort of blitz, bullet, rapid, username, position and every
\* order of asc, desc the response echoes the requested sort and order and
\* its items are ordered by that field in that direction (PLAYERS records
\* carry no position, so for position only the echo is stated).
C18_EverySortHonoured ==
    (/\ Listing
     /\ http.req.sort.s \in {"blitz", "bullet", "rapid", "username", "position"}
     /\ http.req.order.s \in {"asc", "desc"}) =>
        /\ http.status = 200
        /\ http.body.sort = http.req.sort.s
        /\ http.body.order = http.req.order.s
        /\ http.body.sort # "position" =>
              \A i \in 1..(Len(http.body.items) - 1) :
                  InOrder(http.body.items[i], http.body.items[i + 1],
                          http.body.sort, http.body.order)

\* C19: a GET /api/players request served while no load has published
\* anything is answered, whatever its parameters, with status 503 and an
\* error body that carries no listing.
C19_NotLoaded ==
    (http.route = "/api/players" /\ PLAYERS = <<>> /\ DATA_LOADED_AT = 0) =>
        /\ http.status = 503
        /\ DOMAIN http.body = {"error"}

\* a request with unusable parameters was answered before any load
C19_Witness ==
    /\ http.route = "/api/players"
    /\ PLAYERS = <<>>
    /\ DATA_LOADED_AT = 0
    /\ http.status = 503
    /\ http.req.page = J("badstr", 0)
    /\ http.req.sort = Q("position")

----------------------------------------------------------------------------
(* Properties of POST /admin/refresh *)

LoopbackCaller(addr) == addr \in {"127.0.0.1", "localhost", "::1"}

\* a POST /admin/refresh request from a caller outside / inside loopback
RefreshFromOutside ==
    http.route = "/admin/refresh" /\ ~LoopbackCaller(http.req.remote_addr)

RefreshFromLoopback ==
    http.route = "/admin/refresh" /\ LoopbackCaller(http.req.remote_addr)

\* a caller outside loopback gets 403 and load_players is not run: the step
\* that takes the request answers it and changes nothing of the load state
OutsideIsForbidden ==
    /\ [][(http.route = "idle" /\ http'.route = "/admin/refresh"
             /\ ~LoopbackCaller(http'.req.remote_addr)) =>
             /\ http'.status = 403
             /\ UNCHANGED ServerVars]_vars
    /\ [](RefreshFromOutside =>
             /\ http.status = 403
             /\ pc = "idle"
             /\ calls = NoCalls
             /\ inflight = {})

\* a loopback caller makes the handler call load_players
LoopbackLoads ==
    [][(http.route = "idle" /\ http'.route = "/admin/refresh"
          /\ LoopbackCaller(http'.req.remote_addr)) =>
          /\ http'.status = 0
          /\ pc' = "start"]_vars

\* C20 as stated: a caller outside loopback gets 403 and load_players is not
\* run; a loopback caller makes load_players run and every answer it gets is
\* status "ok" with loaded equal to the length of PLAYERS after that load.
C20_RefreshGuard ==
    /\ OutsideIsForbidden
    /\ LoopbackLoads
    /\ [](RefreshFromLoopback /\ http.status # 0 =>
             /\ http.status = 200
             /\ pc = "done"
             /\ http.body = [status |-> "ok", loaded |-> Len(PLAYERS)])

\* C20 amended: a caller outside loopback gets 403 and load_players is not
\* run; a loopback caller makes load_players run; when that load returns the
\* answer is status "ok" with loaded equal to the length of PLAYERS after the
\* load, and when it raises (the roster request failed) the answer is an
\* error and carries no "ok".
C20_RefreshGuardUnlessLoadRaises ==
    /\ OutsideIsForbidden
    /\ LoopbackLoads
    /\ [](RefreshFromLoopback /\ http.status # 0 =>
             \/ /\ pc = "done"
                /\ http.status = 200
                /\ http.body = [status |-> "ok", loaded |-> Len(PLAYERS)]
             \/ /\ pc = "raised"
                /\ http.status = 500
                /\ DOMAIN http.body = {"error"})

\* a refresh from loopback replaced the served list by a one-player list and
\* answered loaded = 1
C20_Witness ==
    /\ RefreshFromLoopback
    /\ http.status = 200
    /\ http.body = [status |-> "ok", loaded |-> 1]
    /\ Len(PLAYERS) = 1
    /\ DATA_LOADED_AT > Window + 2

----------------------------------------------------------------------------
(* Properties of GET /api/players served next to a refresh *)

\* the pair of globals a load_players run that has returned left behind: the
\* one the requests found, and the one of the refresh once it has returned
CompletedLoads ==
    LoadedInit(prog)
    \cup (IF pc = "done"
          THEN {[PLAYERS |-> PLAYERS, DATA_LOADED_AT |-> DATA_LOADED_AT]} ELSE {})

\* C21: a listing answered by GET /api/players while or after load_players
\* runs shows the players of one completed load together with the
\* data_loaded_at of that same load, never the players of one load with the
\* timestamp of another.
C21_AtomicSwap ==
    (prog = "threads" /\ reader.pc = "done" /\ reader.status = 200 /\ pc = "done") =>
        \E l \in CompletedLoads :
            reader.body = api_players_listing(l.PLAYERS, l.DATA_LOADED_AT, reader.req).body

\* C28: GET /api/players answers 503 exactly when PLAYERS is empty at the time
\* of the test of line 169, whatever load ran before: a load that found no
\* active player and a refresh that read an empty roster both leave PLAYERS
\* empty, the latter without touching DATA_LOADED_AT.
C28_NotLoadedIffEmpty ==
    /\ [](prog = "web" /\ http.route = "/api/players" =>
             (http.status = 503 <=> PLAYERS = <<>>))
    /\ [][/\ (reader.pc = "idle" /\ reader'.pc # "idle") =>
                (reader'.status = 503 <=> PLAYERS = <<>>)
          /\ (reader.pc # "idle" /\ reader'.status = 503) => reader.status = 503
          /\ (pc = "start" /\ pc' = "done") =>
                (PLAYERS' = <<>> /\ DATA_LOADED_AT' = DATA_LOADED_AT)]_vars
    /\ [](pc = "done" /\ (\A i \in DOMAIN players : ~IsActive(players[i], now_ms)) =>
             PLAYERS = <<>>)

\* a refresh that read an empty roster cleared the three players served
\* before, kept their timestamp, and the request that followed got 503
C28_Witness ==
    /\ prog = "threads"
    /\ pc = "done" /\ members = <<>>
    /\ PLAYERS = <<>> /\ DATA_LOADED_AT = Window + 2
    /\ reader.pc = "done" /\ reader.status = 503

----------------------------------------------------------------------------
(* Properties of the ranking phase of generate_players_json *)

CoreFields == {"username", "name", "blitz", "bullet", "rapid", "seenAt", "profile"}

\* C22: every written player carries username, name, blitz, bullet, rapid,
\* seenAt and profile exactly as fetch_user returned them, the ranking phase
\* adding only derived fields, and the previous snapshot read for the deltas
\* stays as it was read.
C22_CoreFieldsFrame ==
    /\ [](gen_pc = "done" =>
             \A i \in DOMAIN OUT_FILE.players :
                 \A f \in CoreFields : OUT_FILE.players[i][f] = Survivors[i][f])
    /\ [][prev_file' = prev_file]_vars

DeltaAbsent(j) == j.t \in {"absent", "null"}

\* C23: a run that finds no previous snapshot file writes no rating delta and
\* no rank delta: blitz_diff, bullet_diff, rapid_diff and position_change are
\* missing (or null) in every written player.
C23_NoDeltasOnFirstRun ==
    (gen_pc = "done" /\ prev_file = None) =>
        \A i \in DOMAIN OUT_FILE.players :
            /\ DeltaAbsent(OUT_FILE.players[i].blitz_diff)
            /\ DeltaAbsent(OUT_FILE.players[i].bullet_diff)
            /\ DeltaAbsent(OUT_FILE.players[i].rapid_diff)
            /\ DeltaAbsent(OUT_FILE.players[i].position_change)

\* C24: with no previous snapshot, running lines 180-260 a second time over
\* the same fetched records at the same time writes the snapshot written the
\* first time: same players, same order, same positions, same deltas.
C24_RankingIdempotent ==
    (gen_pc = "done" /\ prev_file = None) =>
        snapshot(mutated_in_place(gen_players, OUT_FILE.generated_at),
                 OUT_FILE.generated_at, None) = OUT_FILE

----------------------------------------------------------------------------
(* Properties of extract_name_from_profile *)

FirstName(p) == IF p.firstName # <<>> THEN p.firstName ELSE p.first

LastName(p) == IF p.lastName # <<>> THEN p.lastName ELSE p.last

\* the first value of the sequence that is not empty, empty when there is none
FirstNonEmpty(names) ==
    LET filled == {i \in DOMAIN names : names[i] # <<>>}
    IN  IF filled = {} THEN <<>>
        ELSE names[CHOOSE i \in filled : \A j \in filled : i <= j]

\* the order of the claim: name, fullName, first and last name, realName,
\* displayName, then the fields of the user object
ClaimedOrder(p, u) ==
    << p.name, p.fullName,
       IF FirstName(p) # <<>> /\ LastName(p) # <<>>
       THEN FirstName(p) \o <<" ">> \o LastName(p) ELSE FirstName(p),
       p.realName, p.displayName, u.name, u.fullName, u.displayName >>

\* the order the function follows: a first name with a last name goes before
\* name and fullName and replaces them; a first name alone comes after them;
\* the joined name and the lone first name are stripped before they are tested
ActualOrder(p, u) ==
    (IF FirstName(p) # <<>> /\ LastName(p) # <<>>
     THEN << Strip(FirstName(p) \o <<" ">> \o LastName(p)) >>
     ELSE << p.name, p.fullName, Strip(FirstName(p)) >>)
    \o << p.realName, p.displayName, u.name, u.fullName, u.displayName >>

\* the ranking phase writes the sentinel for a record fetched with a blank name
SentinelForBlank ==
    gen_pc = "done" =>
        \A i \in DOMAIN OUT_FILE.players :
            Strip(Survivors[i].name) = <<>> => OUT_FILE.players[i].name = SEM_NOME

\* C26: extract_name_from_profile returns (stripped) the first non-empty value
\* in the order name, fullName, first/last name, realName, displayName, user
\* object fields, so that nothing after a non-empty field has any influence;
\* it returns the empty string when every field is empty, and the ranking
\* phase then writes the sentinel name.
C26_NamePreference ==
    /\ naming.done =>
          naming.res = Strip(FirstNonEmpty(ClaimedOrder(naming.profile, naming.uobj)))
    /\ SentinelForBlank

\* C26 amended: the order is: firstName (or first) joined to lastName (or last)
\* when both are non-empty, and then name and fullName are not looked at;
\* otherwise name, fullName, the first name alone; then realName,
\* displayName and the user object's name, fullName, displayName.  The first
\* non-empty one is returned stripped, the empty string when there is none,
\* and the ranking phase writes the sentinel name for a blank result.
C26_NamePreferenceFullNameFirst ==
    /\ naming.done =>
          naming.res = Strip(FirstNonEmpty(ActualOrder(naming.profile, naming.uobj)))
    /\ SentinelForBlank

\* a profile with name, firstName and lastName was given the joined name
C26_Witness ==
    /\ naming.done
    /\ naming.profile.name = <<"n">>
    /\ naming.profile.firstName = <<"x">>
    /\ naming.profile.lastName = <<"l">>
    /\ naming.res = <<"x", " ", "l">>

----------------------------------------------------------------------------
(* Properties of the two fetch phases of load_players *)

RECURSIVE Pow(_, _)
Pow(b, e) == IF e = 0 THEN 1 ELSE b * Pow(b, e - 1)

\* min(REQUEST_TIMEOUT * 1.5^(k-1), 2 * REQUEST_TIMEOUT)
ClaimedTimeout(k) ==
    Min((REQUEST_TIMEOUT * Pow(3, k - 1)) \div Pow(2, k - 1), 2 * REQUEST_TIMEOUT)

PoolRequests(u) == {r \in inflight : r.user = u /\ r.phase = 1}

\* C25: a task of the pool phase issues at most RETRY_ATTEMPTS requests for
\* its username, none after one was answered with a record; the request of
\* attempt k carries the timeout min(REQUEST_TIMEOUT * 1.5^(k-1),
\* 2 * REQUEST_TIMEOUT), which never decreases and never exceeds
\* 2 * REQUEST_TIMEOUT.
C25_PoolTaskTimeouts ==
    /\ [](\A u \in DOMAIN task :
            /\ calls[u].p1 <= RETRY_ATTEMPTS
            /\ task[u].res # None => (task[u].st = "finished" /\ PoolRequests(u) = {})
            /\ \A r \in PoolRequests(u) :
                  /\ task[u].attempt \in 1..RETRY_ATTEMPTS
                  /\ calls[u].p1 = task[u].attempt
                  /\ r.timeout = ClaimedTimeout(task[u].attempt)
                  /\ r.timeout <= 2 * REQUEST_TIMEOUT)
    /\ [][\A u \in DOMAIN task \cap DOMAIN task' :
            /\ task'[u].timeout >= task[u].timeout
            /\ task[u].st = "finished" =>
                  (calls'[u].p1 = calls[u].p1 /\ PoolRequests(u)' = {})]_vars

\* the third attempt for a username is under way with timeout 16
C25_Witness ==
    \E r \in inflight :
        /\ r.phase = 1 /\ r.timeout = 16
        /\ task[r.user].attempt = 3
        /\ calls[r.user].p1 = RETRY_ATTEMPTS

\* number of records the local list players holds for u
Records(u) == Cardinality({i \in DOMAIN players : players[i].username = u})

\* C27: when the two fetch phases of a load_players run are over, every
\* username of the roster has exactly one record in players, or none and
\* then all its attempts of both phases returned None; and after a fetch
\* returned a record for a username no other fetch is issued for it.
C27_OneOutcomePerUsername ==
    /\ [](\A u \in Range(members) : Records(u) <= 1)
    /\ [](pc \in {"filter", "published", "done"} /\ members # <<>> =>
            /\ \A u \in Range(members) :
                  \/ Records(u) = 1 /\ u \in fetched
                  \/ Records(u) = 0 /\ Exhausted(u)
            /\ \A i \in DOMAIN players : players[i].username \in Range(members))
    /\ [][\A u \in fetched :
            /\ calls'[u] = calls[u]
            /\ {r \in inflight' : r.user = u} \subseteq {r \in inflight : r.user = u}]_vars

\* the phases are over with one member exhausted and another one fetched by
\* the sequential phase
C27_Witness ==
    /\ pc = "filter"
    /\ \E u, v \in Range(members) :
          /\ Exhausted(u) /\ Records(u) = 0
          /\ calls[v].p2 > 0 /\ Records(v) = 1

----------------------------------------------------------------------------
(* Properties of the index route of the blueprint *)

\* C29: the players the index route hands to the template are the value the
\* global PLAYERS of the ranking module has after the load_players call the
\* route has just made.
C29_IndexRendersLoaded ==
    (prog = "blueprint" /\ http.route = "/" /\ http.status = 200) =>
        http.body.players = PLAYERS

====
